---- MODULE Spec2Model ----
(***************************************************************************)
(* A model of the bucket plugin of go-seabird (src/plugin.go).              *)
(*                                                                         *)
(* A Go string is modelled as the sequence of its space-separated words    *)
(* ("foo is bar" is <<"foo", "is", "bar">>), so that the regular           *)
(* expressions of the dispatcher can be evaluated as the regexp engine     *)
(* evaluates them: leftmost match, lazy and greedy groups, alternatives    *)
(* tried in the order they are written.  Messages hold single spaces only  *)
(* (bm.Data is trimmed, line 129).  The two buckets of the database are    *)
(* functions from the stored keys to the stored records.                   *)
(***************************************************************************)
EXTENDS Integers, Sequences, FiniteSets, TLC

VARIABLES factsBucket, varsBucket, last, calls, rwlock

vars == <<factsBucket, varsBucket, last, calls, rwlock>>

\* ------------------------------------------------------------------ bounds

\* The longest response list of a fact and value list of a variable that
\* the statement and add-value commands are let to build.
MaxResponses == 2

\* The number of responses and values that the calls running side by side
\* are let to append, all in all.
MaxAppended == 3

MaxValues == 2

\* ------------------------------------------------------------- vocabulary

\* strings.ToLower and the (?i) flag of the patterns, on one word.
Lower(tok) ==
    CASE tok = "Foo" -> "foo"
      [] tok = "Color" -> "color"
      [] tok = "IS" -> "is"
      [] OTHER -> tok

\* strings.ToLower on a string.
ToLower(s) == [i \in DOMAIN s |-> Lower(s[i])]

\* The words of the vocabulary that match \w+ .
WordTokens ==
    {"foo", "Foo", "bar", "baz", "color", "Color", "red", "blue", "is", "IS",
     "also", "are", "forget", "undo", "last", "merge", "alias", "lookup",
     "what", "was", "that", "list", "vars", "var", "remove", "value", "add",
     "create", "detailed", "inventory", "item", "details", "items", "render",
     "literal", "eats"}

\* The words of the vocabulary that match <\w+> .
BracketTokens == {"<eats>"}

\* verb[1 : len(verb)-1] on a word of the form <\w+> .
StripBrackets(tok) == CASE tok = "<eats>" -> "eats" [] OTHER -> tok

\* The words $name of the vocabulary, and the name os.Expand hands to its
\* mapping function for each.
DollarTokens == {"$color", "$Color", "$nosuch"}

DollarName(tok) ==
    CASE tok = "$color" -> "color"
      [] tok = "$Color" -> "Color"
      [] tok = "$nosuch" -> "nosuch"
      [] OTHER -> tok

\* --------------------------------------------------------------- patterns
\* FindStringSubmatch: <<>> (nil) when the pattern does not match, else
\* <<whole match, group 1, group 2, ...>>;  Group(match, n) is match[n].

NoMatch == <<>>

Group(match, n) == match[n + 1]

StartsWith(d, kw) ==
    /\ Len(d) >= Len(kw)
    /\ \A i \in 1..Len(kw) : Lower(d[i]) = kw[i]

IsExactly(d, kw) == Len(d) = Len(kw) /\ StartsWith(d, kw)

\* Whether the a-th alternative of (is|is also|are|<\w+>) matches at
\* position i of d.
AltAt(d, i, a) ==
    CASE a = 1 -> Lower(d[i]) = "is"
      [] a = 2 -> /\ i + 1 <= Len(d)
                  /\ Lower(d[i]) = "is"
                  /\ Lower(d[i + 1]) = "also"
      [] a = 3 -> Lower(d[i]) = "are"
      [] OTHER -> d[i] \in BracketTokens

\* The number of words the a-th alternative takes.
AltLen(a) == IF a = 2 THEN 2 ELSE 1

\* (.+?) (is|is also|are|<\w+>) (.+)$ on d from its first word.  A match
\* has the verb at a position i, as an alternative a, with at least one
\* word left for the trailing (.+).  The engine finds the one with the
\* shortest lazy first group and, for that group, the alternative that
\* comes first in the order written.
isSubmatch(d) ==
    LET cands == {c \in (2..Len(d)) \X (1..4) :
                    AltAt(d, c[1], c[2]) /\ c[1] + AltLen(c[2]) <= Len(d)}
    IN  IF cands = {} THEN NoMatch
        ELSE LET c == CHOOSE x \in cands : \A y \in cands :
                          x[1] < y[1] \/ (x[1] = y[1] /\ x[2] <= y[2])
             IN  <<d, SubSeq(d, 1, c[1] - 1),
                   SubSeq(d, c[1], c[1] + AltLen(c[2]) - 1),
                   SubSeq(d, c[1] + AltLen(c[2]), Len(d))>>

\* (?i)^(.+?) (is|is also|are|<\w+>) (.+)$
isRegexp(d) == isSubmatch(d)

\* (?i)^forget (.+?) (is|is also|are|<\w+>) (.+)$
forgetIsRegexp(d) ==
    IF StartsWith(d, <<"forget">>) /\ isSubmatch(Tail(d)) # NoMatch
    THEN LET m == isSubmatch(Tail(d)) IN <<d, m[2], m[3], m[4]>>
    ELSE NoMatch

\* (?i)^literal(?:\[(\d+)\])? (.*)$
literalRegexp(d) ==
    IF Len(d) >= 2 /\ Lower(d[1]) = "literal" THEN <<d, <<>>, Tail(d)>>
    ELSE IF Len(d) >= 2 /\ d[1] = "literal[1]" THEN <<d, <<"1">>, Tail(d)>>
    ELSE NoMatch

\* (?i)^undo(?: last)?$
undoRegexp(d) ==
    IF IsExactly(d, <<"undo">>) \/ IsExactly(d, <<"undo", "last">>)
    THEN <<d>> ELSE NoMatch

\* ^kw (.*) [-=]> (.*)$ : the greedy first group reaches the last arrow.
arrowSubmatch(d, kw) ==
    LET arrows == {i \in 3..(Len(d) - 1) : d[i] \in {"->", "=>"}}
    IN  IF StartsWith(d, <<kw>>) /\ arrows # {}
        THEN LET i == CHOOSE j \in arrows : \A k \in arrows : j >= k
             IN  <<d, SubSeq(d, 2, i - 1), SubSeq(d, i + 1, Len(d))>>
        ELSE NoMatch

\* (?i)^merge (.*) [-=]> (.*)$
mergeRegexp(d) == arrowSubmatch(d, "merge")

\* (?i)^alias (.*) [-=]> (.*)$
aliasRegexp(d) == arrowSubmatch(d, "alias")

\* ^kw (.*)$ for a keyword kw of one or more words.
restSubmatch(d, kw) ==
    IF StartsWith(d, kw) /\ Len(d) > Len(kw)
    THEN <<d, SubSeq(d, Len(kw) + 1, Len(d))>> ELSE NoMatch

\* (?i)^lookup (.*)$
lookupRegexp(d) == restSubmatch(d, <<"lookup">>)

\* (?i)^forget (.*)$
forgetRegexp(d) == restSubmatch(d, <<"forget">>)

\* (?i)^what was that\??$
whatRegexp(d) ==
    IF \/ IsExactly(d, <<"what", "was", "that">>)
       \/ IsExactly(d, <<"what", "was", "that?">>)
    THEN <<d>> ELSE NoMatch

\* (?i)^list vars$
listVarsRegexp(d) == IF IsExactly(d, <<"list", "vars">>) THEN <<d>> ELSE NoMatch

\* ^kw (\w+)$
wordSubmatch(d, kw) ==
    IF StartsWith(d, kw) /\ Len(d) = Len(kw) + 1 /\ d[Len(d)] \in WordTokens
    THEN <<d, <<d[Len(d)]>>>> ELSE NoMatch

\* ^kw (\w+) (.*)$
wordRestSubmatch(d, kw) ==
    IF /\ StartsWith(d, kw)
       /\ Len(d) >= Len(kw) + 2
       /\ d[Len(kw) + 1] \in WordTokens
    THEN <<d, <<d[Len(kw) + 1]>>, SubSeq(d, Len(kw) + 2, Len(d))>>
    ELSE NoMatch

\* (?i)^list var (\w+)$
listVarRegexp(d) == wordSubmatch(d, <<"list", "var">>)

\* (?i)^remove value (\w+) (.*)$
removeValRegexp(d) == wordRestSubmatch(d, <<"remove", "value">>)

\* (?i)^add value (\w+) (.*)$
addValRegexp(d) == wordRestSubmatch(d, <<"add", "value">>)

\* (?i)^create var (\w+)$
createVarRegexp(d) == wordSubmatch(d, <<"create", "var">>)

\* (?i)^remove var (\w+)$
removeVarRegexp(d) == wordSubmatch(d, <<"remove", "var">>)

\* (?i)^(?:detailed inventory|list item details)$
fullInventoryRegexp(d) ==
    IF \/ IsExactly(d, <<"detailed", "inventory">>)
       \/ IsExactly(d, <<"list", "item", "details">>)
    THEN <<d>> ELSE NoMatch

\* (?i)^(?:inventory|list items)$
inventoryRegexp(d) ==
    IF IsExactly(d, <<"inventory">>) \/ IsExactly(d, <<"list", "items">>)
    THEN <<d>> ELSE NoMatch

\* (?i)^render (.*)$
renderRegexp(d) == restSubmatch(d, <<"render">>)

\* ------------------------------------------------------------ the database
\* A bucket of the nut database: a function from the stored keys to the
\* stored records.  Get fills its out argument and returns nil for a stored
\* key; for a key that is not stored it returns an error and leaves out as
\* the caller made it.

EmptyBucket == [k \in {} |-> <<>>]

Get(bucket, key, out) ==
    IF key \in DOMAIN bucket
    THEN [err |-> FALSE, out |-> bucket[key]]
    ELSE [err |-> TRUE, out |-> out]

Put(bucket, key, val) ==
    [k \in (DOMAIN bucket) \cup {key} |-> IF k = key THEN val ELSE bucket[k]]

Delete(bucket, key) == [k \in (DOMAIN bucket) \ {key} |-> bucket[k]]

\* db.Update(fn): the bucket as fn left it when fn returned nil and the
\* transaction committed, the bucket as it was otherwise.
Update(bucket, written, fnErr, commit) ==
    IF fnErr \/ ~commit THEN bucket ELSE written

\* &bucketFact{} and &bucketVariable{}
zeroFact == [Responses |-> <<>>]

zeroVariable == [Values |-> <<>>, Creator |-> ""]

\* The text of the error bucket.Get returns for a key that is not stored.
errGet == "get: no such key"

\* The text of the error db.Update returns when the commit fails.
errCommit == "commit failed"

\* ---------------------------------------------------------------- replies

Reply(fmt, args) == [fn |-> "Reply", fmt |-> fmt, args |-> args]

MentionReply(fmt, args) == [fn |-> "MentionReply", fmt |-> fmt, args |-> args]

\* What a branch of mentionCallback leaves behind.
Outcome(branch, match, facts, variables, replies) ==
    [branch |-> branch, match |-> match, facts |-> facts,
     vars |-> variables, replies |-> replies]

\* A branch with an empty body.
Nothing(branch, match) ==
    Outcome(branch, match, factsBucket, varsBucket, <<>>)

\* ----------------------------------------------------- the requester's OP

\* The configured AdminModes, a string ranged over mode by mode.
AdminModes == <<"o">>

\* bm.OP: in a channel, whether the user holds one of the AdminModes there.
OP(Public, userModes) ==
    Public /\ \E i \in 1..Len(AdminModes) : AdminModes[i] \in userModes

\* ----------------------------------------------------------- fact branches

\* A literal that stores what it read.
literalBranchPut(bm, match) ==
    LET key == ToLower(Group(match, 2))
        got == Get(factsBucket, key, zeroFact)
    IN  Outcome("literal", match, Put(factsBucket, key, got.out), varsBucket,
                <<MentionReply("%+v", <<got.out>>)>>)

\* literal <key>: the stored fact, as it is, in a mention reply.
literalBranch(bm, match) ==
    LET key == ToLower(Group(match, 2))
        got == Get(factsBucket, key, zeroFact)
    IN  Outcome("literal", match, factsBucket, varsBucket,
                <<MentionReply("%+v", <<got.out>>)>>)

\* The verb of a forget command.
forgetVerb(verb) ==
    IF verb = <<"is", "also">> THEN <<"is">>
    ELSE IF verb[1] \in BracketTokens THEN <<StripBrackets(verb[1])>>
    ELSE verb

\* A forget loop without its break: every response of the verb and the
\* text is cut out.
removeResponseAll(responses, verb, text) ==
    LET keep(r) == ~(r.Text = text /\ r.Verb = verb)
    IN  [found |-> \E k \in 1..Len(responses) : ~keep(responses[k]),
         Responses |-> SelectSeq(responses, keep)]

\* The loop of the forget transaction: the first response of the verb and
\* the text is cut out of the list.
removeResponse(responses, verb, text) ==
    LET hits == {k \in 1..Len(responses) :
                    responses[k].Text = text /\ responses[k].Verb = verb}
    IN  IF hits = {} THEN [found |-> FALSE, Responses |-> responses]
        ELSE LET k == CHOOSE h \in hits : \A g \in hits : h <= g
             IN  [found |-> TRUE,
                  Responses |-> SubSeq(responses, 1, k - 1)
                                \o SubSeq(responses, k + 1, Len(responses))]

\* What the forget transaction writes: the fact it read, or the zero fact
\* for a key that is not stored, without the response, is put under the key.
forgetWrite(bucket, key, out) == Put(bucket, key, out)

\* forget <key> <verb> <text>
forgetIsBranch(bm, match, commit) ==
    LET key == ToLower(Group(match, 1))
        verb == forgetVerb(Group(match, 2))
        text == Group(match, 3)
        got == Get(factsBucket, key, zeroFact)
        cut == removeResponse(got.out.Responses, verb, text)
        out == [Responses |-> cut.Responses]
        facts == Update(factsBucket, forgetWrite(factsBucket, key, out),
                        FALSE, commit)
    IN  Outcome("forgetIs", match, facts, varsBucket,
                IF cut.found
                THEN <<Reply("Ok %s, forgot %s %s %s",
                             <<bm.Who, Group(match, 1), verb, text>>)>>
                ELSE <<Reply("Ok %s, couldn't find %s %s %s",
                             <<bm.Who, Group(match, 1), verb, text>>)>>)

\* A statement that keeps the brackets of its verb.
isVerbKeepBrackets(verb) ==
    IF verb = <<"is", "also">> THEN <<"is">> ELSE verb

\* The verb of a statement.
isVerb(verb) ==
    IF verb = <<"is", "also">> THEN <<"is">>
    ELSE IF verb[1] \in BracketTokens THEN <<StripBrackets(verb[1])>>
    ELSE verb

\* A statement transaction that does not read the fact before it writes.
isWriteOverwrite(bucket, key, resp) ==
    Put(bucket, key, [Responses |-> <<resp>>])

\* What the statement transaction writes: the fact it read, or the zero
\* fact for a key that is not stored, with the response appended.
isWrite(bucket, key, resp) ==
    LET got == Get(bucket, key, zeroFact)
    IN  Put(bucket, key, [Responses |-> Append(got.out.Responses, resp)])

\* <key> <verb> <text>
isBranch(bm, match, commit) ==
    LET key == ToLower(Group(match, 1))
        resp == [Text |-> Group(match, 3), Creator |-> bm.Who,
                 Verb |-> isVerb(Group(match, 2))]
        facts == Update(factsBucket, isWrite(factsBucket, key, resp),
                        FALSE, commit)
    IN  Outcome("is", match, facts, varsBucket,
                <<Reply("Ok %s, %s %s %s",
                        <<bm.Who, Group(match, 1), resp.Verb, resp.Text>>)>>)

\* ------------------------------------------------------- variable branches

\* The loop of list var: the separator is written when first is false, and
\* first is declared and never set.
listVarData(values) ==
    LET first == FALSE
        piece(v) == IF ~first THEN <<<<", ">>, v.Text>> ELSE <<v.Text>>
        F[n \in 0..Len(values)] ==
            IF n = 0 THEN <<>> ELSE F[n - 1] \o piece(values[n])
    IN  F[Len(values)]

\* list var <name>
listVarBranch(bm, match) ==
    LET key == ToLower(Group(match, 1))
        got == Get(varsBucket, key, zeroVariable)
    IN  Outcome("listVar", match, factsBucket, varsBucket,
                <<Reply("Ok %s, %s is %s",
                        <<bm.Who, key, listVarData(got.out.Values)>>)>>)

\* An add value transaction that goes on after the error of Get.
addValTxIgnoreErr(bucket, key, val) ==
    LET got == Get(bucket, key, zeroVariable)
    IN  [err |-> FALSE,
         bucket |-> Put(bucket, key,
                        [got.out EXCEPT !.Values = Append(@, val)])]

\* The function of the add value transaction: the error of Get is returned
\* before anything is written.
addValTx(bucket, key, val) ==
    LET got == Get(bucket, key, zeroVariable)
    IN  IF got.err THEN [err |-> TRUE, bucket |-> bucket]
        ELSE [err |-> FALSE,
              bucket |-> Put(bucket, key,
                             [got.out EXCEPT !.Values = Append(@, val)])]

\* add value <name> <text>
addValBranch(bm, match, commit) ==
    LET key == ToLower(Group(match, 1))
        val == [Text |-> Group(match, 2), Creator |-> bm.Who]
        tx == addValTx(varsBucket, key, val)
        err == tx.err \/ ~commit
        variables == Update(varsBucket, tx.bucket, tx.err, commit)
    IN  Outcome("addVal", match, factsBucket, variables,
                IF err
                THEN <<Reply("Ok %s, %s",
                             <<IF tx.err THEN errGet ELSE errCommit>>)>>
                ELSE <<Reply("Ok %s, added %s to variable %s",
                             <<bm.Who, val.Text, key>>)>>)

\* A create var transaction that makes the requester the Creator of a
\* variable that has one.
createVarTxTakeover(bucket, key, who) ==
    LET got == Get(bucket, key, zeroVariable)
    IN  [created |-> got.out.Creator = "",
         bucket |-> Put(bucket, key, [got.out EXCEPT !.Creator = who])]

\* The function of the create var transaction: a variable read without a
\* Creator gets the requester as its Creator; what was read is put back.
createVarTx(bucket, key, who) ==
    LET got == Get(bucket, key, zeroVariable)
        created == got.out.Creator = ""
        out == IF created THEN [got.out EXCEPT !.Creator = who] ELSE got.out
    IN  [created |-> created, bucket |-> Put(bucket, key, out)]

\* create var <name>, from a requester with OP
createVarBranch(bm, match, commit) ==
    LET key == ToLower(Group(match, 1))
        tx == createVarTx(varsBucket, key, bm.Who)
        variables == Update(varsBucket, tx.bucket, FALSE, commit)
    IN  Outcome("createVar", match, factsBucket, variables,
                IF tx.created
                THEN <<Reply("Ok %s, created variable %s", <<bm.Who, key>>)>>
                ELSE <<Reply("Ok %s, variable %s already created",
                             <<bm.Who, key>>)>>)

\* remove var <name>, from a requester with OP
removeVarBranch(bm, match, commit) ==
    LET key == ToLower(Group(match, 1))
        got == Get(varsBucket, key, zeroVariable)
        variables == Update(varsBucket, Delete(varsBucket, key), FALSE, commit)
    IN  Outcome("removeVar", match, factsBucket, variables,
                IF got.out.Creator # ""
                THEN <<Reply("Ok %s, removed variable %s", <<bm.Who, key>>)>>
                ELSE <<Reply("Ok %s, variable %s doesn't exist",
                             <<bm.Who, key>>)>>)

\* ----------------------------------------------------------------- render

\* rand.Intn(n), from the draw r of the random source.
Intn(r, n) == r % n

\* The mapping function handed to os.Expand: the text of a value of the
\* variable of that name, drawn at random, or the empty string.
renderVar(name, r) ==
    LET got == Get(varsBucket, <<name>>, zeroVariable)
    IN  IF Len(got.out.Values) = 0 THEN <<>>
        ELSE got.out.Values[Intn(r, Len(got.out.Values)) + 1].Text

\* os.Expand: each $name of the text is replaced by what the mapping
\* function gives for name; the result is kept word by word, each word as
\* the string that stands in its place.
Expand(text, rnd) ==
    [i \in DOMAIN text |->
        IF text[i] \in DollarTokens
        THEN renderVar(DollarName(text[i]), rnd[i + 1])
        ELSE <<text[i]>>]

\* render <text>
renderBranch(bm, match, rnd) ==
    Outcome("render", match, factsBucket, varsBucket,
            <<MentionReply("%s", <<Expand(Group(match, 1), rnd)>>)>>)

\* ------------------------------------------------------------- dispatcher

\* A create var branch that does not ask for OP.
createVarGuardNoOP(op, d) == createVarRegexp(d) # NoMatch

\* bm.OP && len(match) > 0, the condition of the create var branch.
createVarGuard(op, d) == op /\ createVarRegexp(d) # NoMatch

\* bm.OP && len(match) > 0, the condition of the remove var branch.
removeVarGuard(op, d) == op /\ removeVarRegexp(d) # NoMatch

\* The chain of mentionCallback: the first pattern, in the order of the
\* code, that matches the message d of a requester with or without OP, and
\* the groups it captured.
Classify(d, op) ==
    LET hit(branch, match) == [branch |-> branch, match |-> match] IN
    IF literalRegexp(d) # NoMatch THEN hit("literal", literalRegexp(d))
    ELSE IF undoRegexp(d) # NoMatch THEN hit("undo", undoRegexp(d))
    ELSE IF mergeRegexp(d) # NoMatch THEN hit("merge", mergeRegexp(d))
    ELSE IF aliasRegexp(d) # NoMatch THEN hit("alias", aliasRegexp(d))
    ELSE IF lookupRegexp(d) # NoMatch THEN hit("lookup", lookupRegexp(d))
    ELSE IF forgetIsRegexp(d) # NoMatch
        THEN hit("forgetIs", forgetIsRegexp(d))
    ELSE IF forgetRegexp(d) # NoMatch THEN hit("forget", forgetRegexp(d))
    ELSE IF whatRegexp(d) # NoMatch THEN hit("what", whatRegexp(d))
    ELSE IF listVarsRegexp(d) # NoMatch THEN hit("listVars", listVarsRegexp(d))
    ELSE IF listVarRegexp(d) # NoMatch THEN hit("listVar", listVarRegexp(d))
    ELSE IF removeValRegexp(d) # NoMatch
        THEN hit("removeVal", removeValRegexp(d))
    ELSE IF addValRegexp(d) # NoMatch THEN hit("addVal", addValRegexp(d))
    ELSE IF createVarGuard(op, d) THEN hit("createVar", createVarRegexp(d))
    ELSE IF removeVarGuard(op, d) THEN hit("removeVar", removeVarRegexp(d))
    ELSE IF fullInventoryRegexp(d) # NoMatch
        THEN hit("fullInventory", fullInventoryRegexp(d))
    ELSE IF inventoryRegexp(d) # NoMatch
        THEN hit("inventory", inventoryRegexp(d))
    ELSE IF isRegexp(d) # NoMatch THEN hit("is", isRegexp(d))
    ELSE IF renderRegexp(d) # NoMatch THEN hit("render", renderRegexp(d))
    ELSE hit("else", NoMatch)

\* The messages, requesters and random draws the calls are made with.

\* m.Prefix.User of a message a user sent: never the empty string.
Whos == {"alice", "bob"}

\* The modes the tracker gives the user in the channel of the message.
ModeSets == {{"o"}, {"v"}}

\* The draws of the random source for a message: one for each $name.
Draws(d) ==
    {r \in [1..Len(d) -> 0..(MaxValues - 1)] :
        \A i \in 1..Len(d) : d[i] \notin DollarTokens => r[i] = 0}

\* The messages without a handler, or with an empty one.
StubInputs ==
    {<<"undo">>, <<"undo", "last">>, <<"merge", "foo", "->", "baz">>,
     <<"alias", "foo", "=>", "baz">>, <<"lookup", "foo">>,
     <<"forget", "foo">>, <<"what", "was", "that?">>, <<"list", "vars">>,
     <<"remove", "value", "color", "red">>, <<"detailed", "inventory">>,
     <<"list", "items">>, <<"foo">>, <<>>}

\* The keys, copulas and texts the statements are made of.
StatementKeys == {<<"foo">>, <<"Foo">>}

Copulas == {<<"is">>, <<"is", "also">>, <<"<eats>">>}

StatementTexts == {<<"bar">>}

Statements ==
    {k \o v \o t : k \in StatementKeys, v \in Copulas, t \in StatementTexts}

FactInputs ==
    Statements \cup {<<"forget">> \o s : s \in Statements}
    \cup {<<"literal", "foo">>, <<"literal[1]", "Foo">>}
    \cup StubInputs

VarInputs ==
    {<<"create", "var", "color">>, <<"create", "var", "Color">>,
     <<"remove", "var", "color">>, <<"list", "var", "color">>,
     <<"list", "var", "Color">>, <<"add", "value", "color", "red">>,
     <<"add", "value", "Color", "blue">>, <<"render", "$color">>,
     <<"render", "a", "$Color">>, <<"render", "$nosuch">>}
    \cup StubInputs

\* The messages that have both the form of a command and the form of a
\* statement, and the commands that show what they did; an alias of a key
\* that a statement is made of, and the lookups of it.
OrderInputs ==
    {<<"render", "foo", "is", "bar">>, <<"render", "bar">>,
     <<"literal", "foo", "is", "bar">>, <<"literal", "render", "foo">>,
     <<"lookup", "foo", "is", "bar">>, <<"merge", "foo", "is", "->", "bar">>,
     <<"alias", "foo", "is", "->", "bar">>, <<"forget", "foo", "is", "bar">>,
     <<"forget", "render", "foo", "is", "bar">>,
     <<"add", "value", "color", "is", "red">>,
     <<"remove", "value", "color", "is", "red">>, <<"foo", "is", "bar">>,
     <<"alias", "baz", "->", "foo">>, <<"literal", "baz">>, <<"baz">>}

\* The chain on each message of the vocabulary.
Classified ==
    [d \in FactInputs \cup VarInputs \cup OrderInputs, op \in BOOLEAN |->
        Classify(d, op)]

\* The body of the branch the chain takes.
Dispatch(bm, commit, rnd) ==
    LET c == Classified[bm.Data, bm.OP]
        b == c.branch
        m == c.match
    IN  CASE b = "literal" -> literalBranch(bm, m)
          [] b = "forgetIs" -> forgetIsBranch(bm, m, commit)
          [] b = "listVar" -> listVarBranch(bm, m)
          [] b = "addVal" -> addValBranch(bm, m, commit)
          [] b = "createVar" -> createVarBranch(bm, m, commit)
          [] b = "removeVar" -> removeVarBranch(bm, m, commit)
          [] b = "is" -> isBranch(bm, m, commit)
          [] b = "render" -> renderBranch(bm, m, rnd)
          [] OTHER -> Nothing(b, m)

\* ------------------------------------------------------------------ state

\* The goroutines the mux runs the callback in.
Goroutines == {1, 2}

\* A goroutine that is not in mentionCallback.
idleCall ==
    [pc |-> "idle", bm |-> [Data |-> <<>>, Who |-> "", OP |-> FALSE],
     facts |-> EmptyBucket, vars |-> EmptyBucket, replies |-> <<>>]

\* The database after newBucketPlugin: the facts and the vars bucket are
\* there and empty.  last is the record of the latest call of
\* mentionCallback: its bucketMessage, the branch it took with the groups
\* of the pattern, whether its transaction committed, the replies it sent,
\* and the buckets as it found them.
Init ==
    /\ factsBucket = EmptyBucket
    /\ varsBucket = EmptyBucket
    /\ last = [branch |-> "none", match |-> NoMatch,
               bm |-> [Data |-> <<>>, Who |-> "", OP |-> FALSE],
               commit |-> TRUE, replies |-> <<>>,
               preFacts |-> EmptyBucket, preVars |-> EmptyBucket]
    /\ calls = [p \in Goroutines |-> idleCall]
    /\ rwlock = 0

\* One call of mentionCallback: for the message Data of the user Who, in a
\* channel or not (Public), where the tracker gives the user userModes;
\* commit is whether the transaction of the call commits, rnd the draws of
\* the random source.
mentionCallback(Data, Who, Public, userModes, commit, rnd) ==
    LET bm == [Data |-> Data, Who |-> Who, OP |-> OP(Public, userModes)]
    IN  \E res \in {Dispatch(bm, commit, rnd)} :
        /\ \A k \in DOMAIN res.facts :
               Len(res.facts[k].Responses) <= MaxResponses
        /\ \A k \in DOMAIN res.vars : Len(res.vars[k].Values) <= MaxValues
        /\ factsBucket' = res.facts
        /\ varsBucket' = res.vars
        /\ last' = [branch |-> res.branch, match |-> res.match, bm |-> bm,
                    commit |-> commit, replies |-> res.replies,
                    preFacts |-> factsBucket, preVars |-> varsBucket]

\* ------------------------------------------------------- specifications

Call(Inputs) ==
    \E d \in Inputs, who \in Whos, pub \in BOOLEAN, modes \in ModeSets :
        \E rnd \in Draws(d) :
            /\ mentionCallback(d, who, pub, modes, TRUE, rnd)
            /\ UNCHANGED <<calls, rwlock>>

\* The fact commands.
NextFacts == Call(FactInputs)

SpecFacts == Init /\ [][NextFacts]_vars

\* The variable commands.
NextVars == Call(VarInputs)

SpecVars == Init /\ [][NextVars]_vars

\* The calls whose transaction may fail to commit.
CallOrFail(Inputs) ==
    \E d \in Inputs, who \in Whos, pub \in BOOLEAN, modes \in ModeSets :
        \E commit \in BOOLEAN, rnd \in Draws(d) :
            /\ mentionCallback(d, who, pub, modes, commit, rnd)
            /\ UNCHANGED <<calls, rwlock>>

\* The commands that write, one of each, on a database that may fail.
FailInputs ==
    {<<"foo", "is", "bar">>, <<"forget", "foo", "is", "bar">>,
     <<"literal", "foo">>, <<"create", "var", "color">>,
     <<"remove", "var", "color">>, <<"add", "value", "color", "red">>,
     <<"list", "var", "color">>}

NextFail == CallOrFail(FailInputs)

\* The commands of both buckets: those that write and those that ask.
AllInputs ==
    FailInputs \cup
    {<<"lookup", "foo">>, <<"what", "was", "that?">>, <<"list", "vars">>,
     <<"list", "items">>, <<"render", "$color">>}

NextAll == Call(AllInputs)

SpecAll == Init /\ [][NextAll]_vars

SpecFail == Init /\ [][NextFail]_vars

\* The commands that are statements too.
NextOrder == Call(OrderInputs)

SpecOrder == Init /\ [][NextOrder]_vars

\* ------------------------------------------------- calls side by side
\* mentionCallback in two goroutines at once.  calls[p] is where goroutine
\* p is in it: idle, in db.Update waiting for the writer lock of the
\* database (wait), in the transaction before the function has run (fn),
\* or past db.Update and before the reply (done); with the bucketMessage
\* of the call and the buckets as its transaction found them.  rwlock is
\* the goroutine whose transaction holds the writer lock, 0 for none.

\* The commands that append, and create var for add value to succeed.
ConcInputs ==
    {<<"foo", "is", "bar">>, <<"create", "var", "color">>,
     <<"add", "value", "color", "red">>}

\* m.Prefix.User: each goroutine runs the messages of one user.
Sender(p) == IF p = 1 THEN "alice" ELSE "bob"

\* The responses and values stored, and the calls that may append one.
Appended ==
    Len(Get(factsBucket, <<"foo">>, zeroFact).out.Responses)
    + Len(Get(varsBucket, <<"color">>, zeroVariable).out.Values)
    + Cardinality({q \in Goroutines : calls[q].pc \in {"wait", "fn"}})

\* A database whose write transactions do not wait for each other.
TxMayBeginAlways(lock) == TRUE

\* db.Update starts its transaction when no other write transaction of
\* the database is open.
TxMayBegin(lock) == lock = 0

\* A message of an operator of the channel reaches mentionCallback in p
\* and takes one of the branches with a db.Update.
Receive(p) ==
    \E d \in ConcInputs :
        LET bm == [Data |-> d, Who |-> Sender(p),
                   OP |-> OP(TRUE, {AdminModes[1]})]
        IN  /\ calls[p].pc = "idle"
            /\ Classified[d, bm.OP].branch \in {"is", "addVal", "createVar"}
            /\ Appended < MaxAppended
            /\ calls' = [calls EXCEPT ![p] = [idleCall EXCEPT !.pc = "wait",
                                                              !.bm = bm]]
            /\ UNCHANGED <<factsBucket, varsBucket, last, rwlock>>

\* db.Update opens the transaction of p: it sees the buckets as they are.
TxBegin(p) ==
    /\ calls[p].pc = "wait"
    /\ TxMayBegin(rwlock)
    /\ rwlock' = p
    /\ calls' = [calls EXCEPT ![p].pc = "fn", ![p].facts = factsBucket,
                              ![p].vars = varsBucket]
    /\ UNCHANGED <<factsBucket, varsBucket, last>>

\* The function of the transaction of p runs on what the transaction
\* sees, and db.Update commits what it wrote and gives the lock back.
TxCommit(p) ==
    LET call == calls[p]
        bm == call.bm
        c == Classified[bm.Data, bm.OP]
        key == ToLower(Group(c.match, 1))
        resp == [Text |-> Group(c.match, 3), Creator |-> bm.Who,
                 Verb |-> isVerb(Group(c.match, 2))]
        val == [Text |-> Group(c.match, 2), Creator |-> bm.Who]
        add == addValTx(call.vars, key, val)
        create == createVarTx(call.vars, key, bm.Who)
    IN  /\ call.pc = "fn"
        /\ rwlock' = IF rwlock = p THEN 0 ELSE rwlock
        /\ factsBucket' =
               IF c.branch = "is"
               THEN Update(factsBucket, isWrite(call.facts, key, resp),
                           FALSE, TRUE)
               ELSE factsBucket
        /\ varsBucket' =
               IF c.branch = "addVal"
               THEN Update(varsBucket, add.bucket, add.err, TRUE)
               ELSE IF c.branch = "createVar"
               THEN Update(varsBucket, create.bucket, FALSE, TRUE)
               ELSE varsBucket
        /\ calls' = [calls EXCEPT ![p].pc = "done", ![p].replies =
               IF c.branch = "is"
               THEN <<Reply("Ok %s, %s %s %s",
                            <<bm.Who, Group(c.match, 1), resp.Verb,
                              resp.Text>>)>>
               ELSE IF c.branch = "addVal"
               THEN IF add.err THEN <<Reply("Ok %s, %s", <<errGet>>)>>
                    ELSE <<Reply("Ok %s, added %s to variable %s",
                                 <<bm.Who, val.Text, key>>)>>
               ELSE IF create.created
               THEN <<Reply("Ok %s, created variable %s", <<bm.Who, key>>)>>
               ELSE <<Reply("Ok %s, variable %s already created",
                            <<bm.Who, key>>)>>]
        /\ UNCHANGED last

\* The reply is sent and mentionCallback returns in p.
Return(p) ==
    LET call == calls[p]
        c == Classified[call.bm.Data, call.bm.OP]
    IN  /\ call.pc = "done"
        /\ last' = [branch |-> c.branch, match |-> c.match, bm |-> call.bm,
                    commit |-> TRUE, replies |-> call.replies,
                    preFacts |-> call.facts, preVars |-> call.vars]
        /\ calls' = [calls EXCEPT ![p] = idleCall]
        /\ UNCHANGED <<factsBucket, varsBucket, rwlock>>

NextConc ==
    \E p \in Goroutines :
        Receive(p) \/ TxBegin(p) \/ TxCommit(p) \/ Return(p)

SpecConc == Init /\ [][NextConc]_vars

\* ------------------------------------------------------------- properties
\* The properties of the specification (spec.md), stated apart from the
\* code above, and the notions they speak of.

\* The response list of a fact, empty for a key that is not stored.
Responses(bucket, key) ==
    IF key \in DOMAIN bucket THEN bucket[key].Responses ELSE <<>>

\* The normalized copula: "is also" is "is", <word> is word, any other
\* copula is itself.
NormalVerb(v) ==
    IF v = <<"is", "also">> THEN <<"is">>
    ELSE IF Len(v) = 1 /\ v[1] \in BracketTokens THEN <<StripBrackets(v[1])>>
    ELSE v

\* s without its i-th element.
RemoveAt(s, i) == SubSeq(s, 1, i - 1) \o SubSeq(s, i + 1, Len(s))

\* Every key but key is stored in both buckets or in neither, with the
\* same record.
SameBut(old, new, key) ==
    /\ (DOMAIN old) \ {key} = (DOMAIN new) \ {key}
    /\ \A k \in (DOMAIN old) \ {key} : new[k] = old[k]

\* The message is the command kw followed by n more words.
IsCommand(d, kw, n) == Len(d) = Len(kw) + n /\ StartsWith(d, kw)

IsCreateVar(d) == IsCommand(d, <<"create", "var">>, 1)

IsRemoveVar(d) == IsCommand(d, <<"remove", "var">>, 1)

FmtForgot == "Ok %s, forgot %s %s %s"

FmtNotFound == "Ok %s, couldn't find %s %s %s"

FmtCreated == "Ok %s, created variable %s"

FmtAlreadyCreated == "Ok %s, variable %s already created"

FmtAdded == "Ok %s, added %s to variable %s"

\* C1: no key of the facts bucket is stored with an empty response list.
C1_NoEmptyFact ==
    \A k \in DOMAIN factsBucket : Len(factsBucket[k].Responses) > 0

\* C2: the statement <k> <v> <t> of a requester leaves the fact of the
\* lower-cased k with its previous responses, in their order, followed by
\* the one response {Text: t, Creator: the requester, Verb: normalized v};
\* no other fact and no variable changes.
C2_StatementAppends ==
    [][\A k \in StatementKeys, v \in Copulas, t \in StatementTexts :
        last'.bm.Data = k \o v \o t =>
            LET key == ToLower(k)
                resp == [Text |-> t, Creator |-> last'.bm.Who,
                         Verb |-> NormalVerb(v)]
            IN  /\ key \in DOMAIN factsBucket'
                /\ factsBucket'[key].Responses
                     = Append(Responses(factsBucket, key), resp)
                /\ SameBut(factsBucket, factsBucket', key)
                /\ varsBucket' = varsBucket]_vars

\* The same of the key, the verb and the text as the statement pattern
\* captures them: this holds of every statement.
AppendsAsCaptured ==
    [][last'.branch = "is" =>
        LET m == last'.match
            key == ToLower(Group(m, 1))
            resp == [Text |-> Group(m, 3), Creator |-> last'.bm.Who,
                     Verb |-> NormalVerb(Group(m, 2))]
        IN  /\ key \in DOMAIN factsBucket'
            /\ factsBucket'[key].Responses
                 = Append(Responses(factsBucket, key), resp)
            /\ SameBut(factsBucket, factsBucket', key)
            /\ varsBucket' = varsBucket]_vars

\* C3: after the statement <k> is also <t>, the last response of the fact
\* of k has the verb "is" and the text t.
C3_IsAlsoStoresText ==
    \A k \in StatementKeys, t \in StatementTexts :
        last.bm.Data = k \o <<"is", "also">> \o t =>
            LET rs == Responses(factsBucket, ToLower(k))
            IN  /\ Len(rs) > 0
                /\ rs[Len(rs)].Verb = <<"is">>
                /\ rs[Len(rs)].Text = t

\* What forget is to do to the responses old for the verb and the text:
\* cut out the first response of both and reply 'forgot', or leave the
\* list as it is and reply 'couldn't find'.
ForgetsFirst(old, new, verb, text, replies) ==
    LET hits == {i \in 1..Len(old) :
                    old[i].Verb = verb /\ old[i].Text = text}
    IN  /\ Len(replies) = 1
        /\ IF hits = {}
           THEN new = old /\ replies[1].fmt = FmtNotFound
           ELSE /\ replies[1].fmt = FmtForgot
                /\ \E i \in hits :
                      /\ \A j \in hits : i <= j
                      /\ new = RemoveAt(old, i)

\* C4: forget <k> <v> <t> removes from the fact of k the first response
\* whose Verb is the normalized v and whose Text is t, keeps the others in
\* their order and replies 'forgot', when there is such a response; it
\* replies 'couldn't find' and leaves the response list as it is otherwise.
C4_ForgetRemovesFirst ==
    [][\A k \in StatementKeys, v \in Copulas, t \in StatementTexts :
        last'.bm.Data = <<"forget">> \o k \o v \o t =>
            /\ ForgetsFirst(Responses(factsBucket, ToLower(k)),
                            Responses(factsBucket', ToLower(k)),
                            NormalVerb(v), t, last'.replies)
            /\ SameBut(factsBucket, factsBucket', ToLower(k))]_vars

\* The same of the key, the verb and the text as the forget pattern
\* captures them: this holds of every forget.
ForgetsAsCaptured ==
    [][last'.branch = "forgetIs" =>
        LET m == last'.match
            key == ToLower(Group(m, 1))
        IN  /\ ForgetsFirst(Responses(factsBucket, key),
                            Responses(factsBucket', key),
                            NormalVerb(Group(m, 2)), Group(m, 3),
                            last'.replies)
            /\ SameBut(factsBucket, factsBucket', key)]_vars

\* C5: a create var or remove var command of a requester without OP is
\* answered with exactly one reply.
C5_RefusalReply ==
    (~last.bm.OP /\ (IsCreateVar(last.bm.Data) \/ IsRemoveVar(last.bm.Data)))
        => Len(last.replies) = 1

\* C6: the set of the stored variables changes only in a create var or a
\* remove var command of a requester with OP.
C6_VarsOnlyByPrivileged ==
    [][DOMAIN varsBucket' # DOMAIN varsBucket =>
        /\ last'.bm.OP
        /\ IsCreateVar(last'.bm.Data) \/ IsRemoveVar(last'.bm.Data)]_vars

C6_Witness ==
    /\ ~last.bm.OP
    /\ IsRemoveVar(last.bm.Data)
    /\ last.branch = "else"
    /\ <<"color">> \in DOMAIN last.preVars
    /\ varsBucket = last.preVars

\* C7: create var of a requester with OP creates a variable that is not
\* stored, with the requester as Creator and no values, and replies
\* 'created'; for a stored variable it replies 'already created' and
\* changes nothing.
C7_CreateVarIdempotent ==
    [][(last'.bm.OP /\ IsCreateVar(last'.bm.Data)) =>
        LET key == ToLower(<<last'.bm.Data[3]>>)
        IN  /\ Len(last'.replies) = 1
            /\ factsBucket' = factsBucket
            /\ IF key \in DOMAIN varsBucket
               THEN /\ varsBucket' = varsBucket
                    /\ last'.replies[1].fmt = FmtAlreadyCreated
               ELSE /\ key \in DOMAIN varsBucket'
                    /\ varsBucket'[key]
                         = [Values |-> <<>>, Creator |-> last'.bm.Who]
                    /\ SameBut(varsBucket, varsBucket', key)
                    /\ last'.replies[1].fmt = FmtCreated]_vars

C7_Witness ==
    /\ last.branch = "createVar"
    /\ last.replies[1].fmt = FmtAlreadyCreated
    /\ <<"color">> \in DOMAIN varsBucket
    /\ Len(varsBucket[<<"color">>].Values) = 2
    /\ varsBucket[<<"color">>].Creator # last.bm.Who

\* C8: add value <name> <text> on a variable that is not stored changes
\* nothing and gives one reply that is not the 'added' reply; on a stored
\* variable it appends the one value {text, requester} and leaves the
\* earlier values, the Creator and every other variable as they are.
C8_AddValue ==
    [][last'.branch = "addVal" =>
        LET m == last'.match
            key == ToLower(Group(m, 1))
            val == [Text |-> Group(m, 2), Creator |-> last'.bm.Who]
        IN  /\ Len(last'.replies) = 1
            /\ factsBucket' = factsBucket
            /\ IF key \notin DOMAIN varsBucket
               THEN /\ varsBucket' = varsBucket
                    /\ last'.replies[1].fmt # FmtAdded
               ELSE /\ key \in DOMAIN varsBucket'
                    /\ varsBucket'[key].Values
                         = Append(varsBucket[key].Values, val)
                    /\ varsBucket'[key].Creator = varsBucket[key].Creator
                    /\ SameBut(varsBucket, varsBucket', key)
                    /\ last'.replies[1].fmt = FmtAdded]_vars

C8_Witness ==
    /\ last.branch = "addVal"
    /\ last.replies[1].fmt = FmtAdded
    /\ LET vs == varsBucket[<<"color">>].Values
       IN  /\ Len(vs) = 2
           /\ vs[1].Text = vs[2].Text
           /\ vs[1].Creator # vs[2].Creator

\* The texts of the values, with the separator between consecutive ones.
JoinValues(values) ==
    LET F[n \in 0..Len(values)] ==
            IF n = 0 THEN <<>>
            ELSE IF n = 1 THEN <<values[1].Text>>
            ELSE F[n - 1] \o <<<<", ">>, values[n].Text>>
    IN  F[Len(values)]

\* C9: list var <name> replies with the texts of the values of the
\* variable in their order, ", " between consecutive ones and nowhere else.
C9_ListVarJoins ==
    IsCommand(last.bm.Data, <<"list", "var">>, 1) =>
        LET key == ToLower(<<last.bm.Data[3]>>)
            values == IF key \in DOMAIN varsBucket
                      THEN varsBucket[key].Values ELSE <<>>
        IN  /\ Len(last.replies) = 1
            /\ last.replies[1].args[3] = JoinValues(values)

\* The latest command changed what is stored.
Mutated == factsBucket # last.preFacts \/ varsBucket # last.preVars

\* C10: undo right after a command that changed what is stored leaves both
\* buckets as they were before that command.
C10_UndoRestores ==
    [][(Mutated /\ undoRegexp(last'.bm.Data) # NoMatch) =>
        /\ factsBucket' = last.preFacts
        /\ varsBucket' = last.preVars]_vars

FmtStored == "Ok %s, %s %s %s"

FmtRemoved == "Ok %s, removed variable %s"

\* C11: a statement, a forget, a create var or a remove var whose
\* transaction failed to commit sends one reply, which is none of the
\* confirmations of success, and leaves both buckets as they were.
C11_FailureReported ==
    (/\ ~last.commit
     /\ last.branch \in {"is", "forgetIs", "createVar", "removeVar"})
    => /\ factsBucket = last.preFacts
       /\ varsBucket = last.preVars
       /\ Len(last.replies) = 1
       /\ last.replies[1].fmt
              \notin {FmtStored, FmtForgot, FmtCreated, FmtRemoved}

\* C12: after forget <key> the fact of the key has no responses left,
\* whatever statements came before.
C12_ForgetDeletesFact ==
    IsCommand(last.bm.Data, <<"forget">>, 1)
    => Responses(factsBucket, ToLower(Tail(last.bm.Data))) = <<>>

\* The message is alias <src> -> <dst> with one word for each key.
IsAlias(d) == IsCommand(d, <<"alias">>, 3) /\ d[3] \in {"->", "=>"}

\* C13: the lookup of a, literal or implicit, that follows alias a -> b
\* for a b with responses is answered with the responses of b.
C13_AliasResolves ==
    [][(/\ IsAlias(last.bm.Data)
        /\ Responses(factsBucket, ToLower(<<last.bm.Data[4]>>)) # <<>>
        /\ last'.bm.Data \in {<<"literal", last.bm.Data[2]>>,
                               <<last.bm.Data[2]>>})
       => /\ Len(last'.replies) = 1
          /\ last'.replies[1].args =
                 <<[Responses |->
                       Responses(factsBucket,
                                 ToLower(<<last.bm.Data[4]>>))]>>]_vars

\* The message is render <text>.
IsRender(d) == StartsWith(d, <<"render">>) /\ Len(d) > 1

\* The values of a variable, none for a key that is not stored.
ValuesOf(bucket, key) ==
    IF key \in DOMAIN bucket THEN bucket[key].Values ELSE <<>>

\* out stands for the text with each $name replaced, once, by the empty
\* string when the variable under KeyOf(name) has no values and by the
\* text of one of its values otherwise, and every other word kept.
Substitutes(text, out, KeyOf(_)) ==
    /\ DOMAIN out = DOMAIN text
    /\ \A i \in DOMAIN text :
           IF text[i] \in DollarTokens
           THEN LET vals == ValuesOf(varsBucket, KeyOf(DollarName(text[i])))
                IN  IF vals = <<>> THEN out[i] = <<>>
                    ELSE \E j \in 1..Len(vals) : out[i] = vals[j].Text
           ELSE out[i] = <<text[i]>>

\* The variable a name stands for: keys are case-insensitive.
VariableOf(name) == ToLower(<<name>>)

\* The key the name is, letter for letter.
KeyAsWritten(name) == <<name>>

\* C14: render <text> replies the text with each $name replaced, in one
\* pass, by the text of one of the values of the variable, or by the
\* empty string for a variable without values, and every other word as
\* it is.
C14_RenderSubstitutes ==
    IsRender(last.bm.Data)
    => /\ Len(last.replies) = 1
       /\ Substitutes(Tail(last.bm.Data), last.replies[1].args[1],
                      VariableOf)

\* The same with each $name looked up under the key as it is written.
RendersAsWritten ==
    IsRender(last.bm.Data)
    => /\ Len(last.replies) = 1
       /\ Substitutes(Tail(last.bm.Data), last.replies[1].args[1],
                      KeyAsWritten)

\* C15: a $name in any letter case is replaced by a value of the variable
\* that list var and add value reach under that name, when it has one.
C15_DollarAnyCase ==
    IsRender(last.bm.Data)
    => \A i \in 2..Len(last.bm.Data) :
           LET w == last.bm.Data[i]
               vals == IF w \in DollarTokens
                       THEN ValuesOf(varsBucket, VariableOf(DollarName(w)))
                       ELSE <<>>
           IN  vals # <<>>
               => \E j \in 1..Len(vals) :
                      last.replies[1].args[1][i - 1] = vals[j].Text

\* The message matches the pattern of a command other than the statement.
MatchesCommand(d) ==
    \/ literalRegexp(d) # NoMatch
    \/ undoRegexp(d) # NoMatch
    \/ mergeRegexp(d) # NoMatch
    \/ aliasRegexp(d) # NoMatch
    \/ lookupRegexp(d) # NoMatch
    \/ forgetRegexp(d) # NoMatch
    \/ whatRegexp(d) # NoMatch
    \/ listVarsRegexp(d) # NoMatch
    \/ listVarRegexp(d) # NoMatch
    \/ removeValRegexp(d) # NoMatch
    \/ addValRegexp(d) # NoMatch
    \/ createVarRegexp(d) # NoMatch
    \/ removeVarRegexp(d) # NoMatch
    \/ fullInventoryRegexp(d) # NoMatch
    \/ inventoryRegexp(d) # NoMatch
    \/ renderRegexp(d) # NoMatch

\* C16: a message that matches the pattern of another command is not
\* taken as a statement: no fact has more responses after it than before.
C16_StatementLast ==
    MatchesCommand(last.bm.Data)
    => \A k \in DOMAIN factsBucket :
           Len(Responses(factsBucket, k)) <= Len(Responses(last.preFacts, k))

\* The message is add value <name> <text> with one word for the text.
IsAddValue(d) == IsCommand(d, <<"add", "value">>, 2)

\* C17: the transaction of a statement leaves the list of the key as it
\* was when the transaction committed, with the response of the statement
\* after it, and the transaction of an add value to a variable that is
\* stored does so with the value: no entry that a call running beside it
\* has stored is lost.
C17_NoLostUpdate ==
    [][\A p \in Goroutines :
          (calls[p].pc = "fn" /\ calls'[p].pc = "done")
          => LET bm == calls[p].bm
                 d == bm.Data
             IN  /\ \A k \in StatementKeys, v \in Copulas,
                       t \in StatementTexts :
                        d = k \o v \o t
                        => Responses(factsBucket', ToLower(k)) =
                              Append(Responses(factsBucket, ToLower(k)),
                                     [Text |-> SubSeq(d, Len(k) + 2, Len(d)),
                                      Creator |-> bm.Who,
                                      Verb |-> <<d[Len(k) + 1]>>])
                 /\ (IsAddValue(d) /\ ToLower(<<d[3]>>) \in DOMAIN varsBucket)
                    => ValuesOf(varsBucket', ToLower(<<d[3]>>)) =
                          Append(ValuesOf(varsBucket, ToLower(<<d[3]>>)),
                                 [Text |-> <<d[4]>>, Creator |-> bm.Who])
      ]_vars

\* Both goroutines are past the transaction of a statement for the same
\* key and have not replied yet, and the key holds their two responses
\* after one that was there before.
C17_Witness ==
    /\ \A p \in Goroutines :
           calls[p].pc = "done" /\ calls[p].bm.Data = <<"foo", "is", "bar">>
    /\ Len(Responses(factsBucket, <<"foo">>)) = 3
    /\ {Responses(factsBucket, <<"foo">>)[i].Creator : i \in 2..3}
          = {"alice", "bob"}

\* The message is one of the queries: literal, list var, lookup, what was
\* that, list vars, inventory.
IsQuery(d) ==
    \/ Len(d) >= 2 /\ d[1] \in {"literal", "literal[1]", "lookup"}
    \/ IsCommand(d, <<"list", "var">>, 1)
    \/ d \in {<<"what", "was", "that">>, <<"what", "was", "that?">>,
               <<"list", "vars">>, <<"inventory">>, <<"list", "items">>}

\* At most one key of the bucket is stored, removed or changed.
OneKeyAtMost(old, new) ==
    \E k \in (DOMAIN old) \cup (DOMAIN new) \cup {<<>>} : SameBut(old, new, k)

\* C18: a command changes at most one key, of one of the two buckets, and
\* sends at most one reply; a query changes no bucket.
C18_OneMutationOneReply ==
    [][/\ Len(last'.replies) <= 1
       /\ factsBucket' = factsBucket \/ varsBucket' = varsBucket
       /\ OneKeyAtMost(factsBucket, factsBucket')
       /\ OneKeyAtMost(varsBucket, varsBucket')
       /\ IsQuery(last'.bm.Data)
          => factsBucket' = factsBucket /\ varsBucket' = varsBucket]_vars

\* A literal or a list var was answered, on buckets that both hold a key
\* with entries.
C18_Witness ==
    /\ IsQuery(last.bm.Data)
    /\ Len(last.replies) = 1
    /\ \E k \in DOMAIN factsBucket : factsBucket[k].Responses # <<>>
    /\ \E k \in DOMAIN varsBucket : varsBucket[k].Values # <<>>

\* The copulas the second group of the patterns is written to capture.
CapturableVerbs ==
    {<<"is">>, <<"IS">>, <<"is", "also">>, <<"are">>, <<"<eats>">>}

\* C19: on every copula the statement and the forget branch normalize to
\* the same verb, and normalizing that verb again leaves it as it is; so
\* it is with the verb of every statement and forget that was run.
C19_NormalizeIdempotent ==
    /\ \A v \in CapturableVerbs :
           /\ isVerb(v) = forgetVerb(v)
           /\ isVerb(isVerb(v)) = isVerb(v)
           /\ forgetVerb(forgetVerb(v)) = forgetVerb(v)
    /\ last.branch \in {"is", "forgetIs"}
       => LET v == Group(last.match, 2)
              n == last.replies[1].args[3]
          IN  /\ n = isVerb(v) /\ n = forgetVerb(v)
              /\ isVerb(n) = n /\ forgetVerb(n) = n

\* A statement with a verb in brackets was run and answered with the verb
\* without them.
C19_Witness ==
    /\ last.bm.Data = <<"foo", "<eats>", "bar">>
    /\ Len(last.replies) = 1
    /\ last.replies[1].args[3] = <<"eats">>

\* The step is forget s, made after the statement s was run.
ForgetOfLast ==
    /\ last.bm.Data \in Statements
    /\ last'.bm.Data = <<"forget">> \o last.bm.Data

\* The key of a statement of the vocabulary, whose keys are one word.
KeyOfStatement(d) == ToLower(<<d[1]>>)

\* The response list that is left when, in the list pre, the response r is
\* added and then forgotten by its verb and its text: pre itself when pre
\* has no response of that verb and text; otherwise pre without the first
\* of them, and with r at its end.
AddedAndForgotten(pre, r) ==
    LET hits == {i \in 1..Len(pre) :
                    pre[i].Verb = r.Verb /\ pre[i].Text = r.Text}
    IN  IF hits = {} THEN pre
        ELSE LET i == CHOOSE h \in hits : \A g \in hits : h <= g
             IN  Append(RemoveAt(pre, i), r)

====
